---- MODULE Spec2Model ----
(***************************************************************************)
(* State-machine model of the App component of src/src/App.tsx: the React  *)
(* state hooks, the contentEditable element behind editorRef, the          *)
(* react-pdf Document, the in-flight handleFileChange invocations and the  *)
(* pending auto-save timers.  One action per event handler; a handler that *)
(* sets state is taken together with the render it causes.                 *)
(***************************************************************************)
EXTENDS Integers, Sequences, FiniteSets, TLC

(* ------------------------------ bounds --------------------------------- *)

\* Longest content the user types into the editor (characters).
MaxText == 2
\* Most handleFileChange invocations awaiting a promise at one time.
MaxTasks == 2
\* Most auto-save timers pending at one time.
MaxTimers == 2
\* Page count of the larger PDF offered to the file picker.
MaxPages == 3

(* --------------------------- program constants ------------------------- *)

MinFontSize == 8
MaxFontSize == 72
FontStep == 2
InitFontSize == 16
\* scale is kept in tenths: 1.0 is 10, the step 0.1 is 1.
MinScale == 5
MaxScale == 20
ScaleStep == 1
InitScale == 10
\* numPages === null (useState<number | null>(null)); falsy like 0 in
\* `numPages && prev < numPages`.
Null == 0
\* pdfFile === null and fileName === '' (both falsy in the JSX conditions).
NoFile == ""
\* element.style.fontSize never assigned on the current DOM element.
Unset == 0
\* element.style.fontFamily never assigned, or dropped from the style attribute.
NoFamily == ""

(* ------------------------ inputs: files to open ------------------------ *)

PdfType == "application/pdf"
DocxType == "application/vnd.openxmlformats-officedocument.wordprocessingml.document"
DocType == "application/msword"

PdfFiles == {"one.pdf", "many.pdf", "broken.pdf"}
WordFiles == {"a.docx", "b.doc", "corrupt.docx"}
OtherFiles == {"pic.png"}
Files == PdfFiles \cup WordFiles \cup OtherFiles

\* file.type as the browser reports it.
FileType(f) ==
    IF f \in PdfFiles THEN PdfType
    ELSE IF f \in {"a.docx", "corrupt.docx"} THEN DocxType
    ELSE IF f = "b.doc" THEN DocType
    ELSE "image/png"

\* Whether pdf.js can load the file, and the page count it then reports.
PdfLoads(f) == f \in {"one.pdf", "many.pdf"}
PdfPages(f) == IF f = "one.pdf" THEN 1 ELSE MaxPages

\* Whether mammoth.convertToHtml resolves, and result.value when it does.
MammothOk(f) == f \in {"a.docx", "b.doc"}
MammothValue(f) ==
    IF f = "a.docx" THEN <<"<p>", "a", " ", "a", "</p>">>
    ELSE <<"<h1>", "a", "</h1>">>

(* ------------------------- HTML and word count ------------------------- *)

\* HTML is a sequence of tokens: tags, and the characters "a" and " ".
TextChars == {"a", " "}
IsText(tok) == tok \in TextChars

\* The chain of .replace(/<tag>/g, '<tag class=...>') calls.
AddClass(tok) ==
    CASE tok = "<p>" -> "<p class=mb-4>"
      [] tok = "<h1>" -> "<h1 class=text-3xl>"
      [] tok = "<h2>" -> "<h2 class=text-2xl>"
      [] tok = "<ul>" -> "<ul class=list-disc>"
      [] tok = "<ol>" -> "<ol class=list-decimal>"
      [] tok = "<table>" -> "<table class=w-full>"
      [] tok = "<td>" -> "<td class=border>"
      [] OTHER -> tok

ConvertedHtml(f) == [i \in 1..Len(MammothValue(f)) |-> AddClass(MammothValue(f)[i])]

\* element.textContent: the text nodes, tags dropped.
TextContent(html) == SelectSeq(html, IsText)

RECURSIVE TrimLeft(_)
TrimLeft(s) == IF s # <<>> /\ Head(s) = " " THEN TrimLeft(Tail(s)) ELSE s

RECURSIVE TrimRight(_)
TrimRight(s) ==
    IF s # <<>> /\ s[Len(s)] = " " THEN TrimRight(SubSeq(s, 1, Len(s) - 1)) ELSE s

\* String.prototype.trim
Trim(s) == TrimRight(TrimLeft(s))

\* s.split(/\s+/).length: one more than the number of whitespace runs.
RECURSIVE SplitLength(_)
SplitLength(s) ==
    IF s = <<>> THEN 1
    ELSE IF Head(s) = " "
         THEN 1 + SplitLength(TrimLeft(s))
         ELSE SplitLength(Tail(s))

\* text.trim() ? text.trim().split(/\s+/).length : 0
CountWords(text) == IF Trim(text) # <<>> THEN SplitLength(Trim(text)) ELSE 0

(* ------------------------------- state --------------------------------- *)

VARIABLES
    fontSize,       \* useState(16)
    scale,          \* useState(1.0), in tenths
    pageNumber,     \* useState(1)
    numPages,       \* useState<number | null>(null)
    isPdfMode,      \* useState(false)
    pdfFile,        \* useState<PDFFile | null>(null): the file's name, or NoFile
    fileName,       \* useState('')
    wordCount,      \* useState(0)
    isSaving,       \* useState(false)
    innerHTML,      \* editorRef.current.innerHTML; <<>> while no editor is mounted
    editorFontPx,   \* editorRef.current.style.fontSize; Unset on a fresh element
    pdfFontPx,      \* font-size in the style attribute of .react-pdf__Document
    docState,       \* the react-pdf Document: "none", "loading", "loaded", "failed"
    tasks,          \* handleFileChange invocations suspended at an await
    timers,         \* pending setTimeout(() => setIsSaving(false), 1000) callbacks
    darkMode,       \* useState(true)
    bodyLightMode,  \* whether document.body.classList contains 'light-mode'
    selectedFont,   \* useState('Inter')
    editorFontFamily, \* editorRef.current.style.fontFamily; NoFamily on a fresh element
    pdfFontFamily,  \* font-family in the style attribute of .react-pdf__Document
    isOpen,         \* useState(false) of the FontSelector rendered in the toolbar
    lastEvent,      \* the handler step taken last
    effects         \* what that step sent to console, alert, execCommand, jsPDF

vars == <<fontSize, scale, pageNumber, numPages, isPdfMode, pdfFile, fileName,
          wordCount, isSaving, innerHTML, editorFontPx, pdfFontPx, editorFontFamily, pdfFontFamily, docState,
          tasks, timers, darkMode, bodyLightMode, selectedFont, editorFontFamily,
          pdfFontFamily, isOpen, lastEvent, effects>>

viewVars == <<fontSize, scale, pageNumber, numPages, editorFontPx, pdfFontPx, editorFontFamily, pdfFontFamily>>
docVars == <<wordCount, isSaving, tasks, timers>>
themeVars == <<darkMode, bodyLightMode, selectedFont>>

\* editorRef.current is the editable div while the text branch of the
\* isPdfMode ternary is rendered, and null otherwise.
EditorMounted(mode) == ~mode
\* The Document (and the PDF controls) render under isPdfMode && pdfFile.
DocumentMounted(mode, file) == mode /\ file # NoFile

Event(op, file, failure) == [op |-> op, file |-> file, failure |-> failure]
NoEffects ==
    [consoleError |-> 0, alert |-> 0, execCommand |-> <<>>, html |-> <<>>, save |-> <<>>]

Init ==
    /\ fontSize = InitFontSize
    /\ scale = InitScale
    /\ pageNumber = 1
    /\ numPages = Null
    /\ isPdfMode = FALSE
    /\ pdfFile = NoFile
    /\ fileName = NoFile
    /\ wordCount = CountWords(TextContent(<<>>))
    /\ isSaving = FALSE
    /\ innerHTML = <<>>
    /\ editorFontPx = Unset
    /\ pdfFontPx = Unset
    /\ docState = "none"
    /\ tasks = <<>>
    /\ timers = 0
    /\ darkMode = TRUE
    /\ bodyLightMode = FALSE
    /\ selectedFont = "Inter"
    /\ editorFontFamily = NoFamily
    /\ pdfFontFamily = NoFamily
    /\ isOpen = FALSE
    /\ lastEvent = Event("mount", NoFile, "none")
    /\ effects = NoEffects

(* ------------------- rendering after a state change -------------------- *)

\* FontSelector is a component defined inside App: every render of App makes
\* it a new component type, so React remounts it and its isOpen starts again
\* at false.  App renders again when one of its state hooks changes value.
AppStateChanged ==
    <<fontSize, scale, pageNumber, numPages, isPdfMode, pdfFile, fileName, wordCount,
      isSaving>>' # <<fontSize, scale, pageNumber, numPages, isPdfMode, pdfFile,
                      fileName, wordCount, isSaving>>

\* What a handler that touches neither the theme nor the font leaves of them.
KeepTheme ==
    /\ UNCHANGED themeVars
    /\ isOpen' = (isOpen /\ ~AppStateChanged)

\* The commit that follows setIsPdfMode(mode) / setPdfFile(file): switching
\* branch of the ternary unmounts one subtree and mounts the other afresh.
\* newUrl: the Document receives a new file URL and loads again.
Render(mode, file, newUrl) ==
    /\ isPdfMode' = mode
    /\ pdfFile' = file
    /\ innerHTML' = IF EditorMounted(mode) /\ EditorMounted(isPdfMode) THEN innerHTML ELSE <<>>
    /\ editorFontPx' =
         IF EditorMounted(mode) /\ EditorMounted(isPdfMode) THEN editorFontPx ELSE Unset
    /\ pdfFontPx' =
         IF DocumentMounted(mode, file) /\ DocumentMounted(isPdfMode, pdfFile)
         THEN pdfFontPx ELSE Unset
    /\ editorFontFamily' =
         IF EditorMounted(mode) /\ EditorMounted(isPdfMode) THEN editorFontFamily ELSE NoFamily
    /\ pdfFontFamily' =
         IF DocumentMounted(mode, file) /\ DocumentMounted(isPdfMode, pdfFile)
         THEN pdfFontFamily ELSE NoFamily
    /\ docState' =
         IF ~DocumentMounted(mode, file) THEN "none"
         ELSE IF DocumentMounted(isPdfMode, pdfFile) /\ ~newUrl THEN docState
         ELSE "loading"

(* --------------------------- font size, zoom --------------------------- *)

Max(a, b) == IF a >= b THEN a ELSE b
Min(a, b) == IF a <= b THEN a ELSE b

\* 'A-' without the lower limit.
SmallerFontSizeUnclamped(size) == size - FontStep
\* onClick of 'A-': Math.max(8, fontSize - 2)
SmallerFontSize(size) == Max(MinFontSize, size - FontStep)
\* onClick of 'A+': Math.min(72, fontSize + 2)
LargerFontSize(size) == Min(MaxFontSize, size + FontStep)

handleFontSizeChange(size) ==
    /\ fontSize' = size
    /\ editorFontPx' = IF EditorMounted(isPdfMode) THEN size ELSE editorFontPx
    /\ pdfFontPx' = IF DocumentMounted(isPdfMode, pdfFile) THEN size ELSE pdfFontPx
    /\ editorFontFamily' = editorFontFamily
    /\ pdfFontFamily' =
         IF DocumentMounted(isPdfMode, pdfFile) THEN NoFamily ELSE pdfFontFamily
    /\ effects' = NoEffects
    /\ UNCHANGED <<scale, pageNumber, numPages, isPdfMode, pdfFile, fileName,
                   innerHTML, docState, docVars>>
    /\ KeepTheme

ClickFontSmaller ==
    /\ handleFontSizeChange(SmallerFontSize(fontSize))
    /\ lastEvent' = Event("A-", NoFile, "none")

ClickFontLarger ==
    /\ handleFontSizeChange(LargerFontSize(fontSize))
    /\ lastEvent' = Event("A+", NoFile, "none")

\* zoomIn without the upper limit.
ZoomedInUnclamped(prevScale) == prevScale + ScaleStep
\* setScale(prevScale => Math.min(prevScale + 0.1, 2.0)) and its counterpart.
ZoomedIn(prevScale) == Min(prevScale + ScaleStep, MaxScale)
ZoomedOut(prevScale) == Max(prevScale - ScaleStep, MinScale)

zoomIn ==
    /\ DocumentMounted(isPdfMode, pdfFile)
    /\ scale' = ZoomedIn(scale)
    /\ lastEvent' = Event("zoomIn", NoFile, "none")
    /\ effects' = NoEffects
    /\ UNCHANGED <<fontSize, pageNumber, numPages, isPdfMode, pdfFile, fileName,
                   innerHTML, editorFontPx, pdfFontPx, editorFontFamily, pdfFontFamily, docState, docVars>>
    /\ KeepTheme

zoomOut ==
    /\ DocumentMounted(isPdfMode, pdfFile)
    /\ scale' = ZoomedOut(scale)
    /\ lastEvent' = Event("zoomOut", NoFile, "none")
    /\ effects' = NoEffects
    /\ UNCHANGED <<fontSize, pageNumber, numPages, isPdfMode, pdfFile, fileName,
                   innerHTML, editorFontPx, pdfFontPx, editorFontFamily, pdfFontFamily, docState, docVars>>
    /\ KeepTheme

(* --------------------------- page navigation --------------------------- *)

NextPageNumber(prev) == IF numPages # Null /\ prev < numPages THEN prev + 1 ELSE prev
PrevPageNumber(prev) == IF prev > 1 THEN prev - 1 ELSE prev

nextPage ==
    /\ DocumentMounted(isPdfMode, pdfFile)
    /\ pageNumber' = NextPageNumber(pageNumber)
    /\ lastEvent' = Event("nextPage", NoFile, "none")
    /\ effects' = NoEffects
    /\ UNCHANGED <<fontSize, scale, numPages, isPdfMode, pdfFile, fileName,
                   innerHTML, editorFontPx, pdfFontPx, editorFontFamily, pdfFontFamily, docState, docVars>>
    /\ KeepTheme

prevPage ==
    /\ DocumentMounted(isPdfMode, pdfFile)
    /\ pageNumber' = PrevPageNumber(pageNumber)
    /\ lastEvent' = Event("prevPage", NoFile, "none")
    /\ effects' = NoEffects
    /\ UNCHANGED <<fontSize, scale, numPages, isPdfMode, pdfFile, fileName,
                   innerHTML, editorFontPx, pdfFontPx, editorFontFamily, pdfFontFamily, docState, docVars>>
    /\ KeepTheme

\* The Document's onLoadSuccess once pdf.js has parsed the file.
onDocumentLoadSuccess ==
    /\ docState = "loading"
    /\ PdfLoads(pdfFile)
    /\ docState' = "loaded"
    /\ numPages' = PdfPages(pdfFile)
    /\ lastEvent' = Event("onDocumentLoadSuccess", pdfFile, "none")
    /\ effects' = NoEffects
    /\ UNCHANGED <<fontSize, scale, pageNumber, isPdfMode, pdfFile, fileName,
                   innerHTML, editorFontPx, pdfFontPx, editorFontFamily, pdfFontFamily, docVars>>
    /\ KeepTheme

\* The Document's onLoadError: console.error("PDF Load Error:", error).
onLoadError ==
    /\ docState = "loading"
    /\ ~PdfLoads(pdfFile)
    /\ docState' = "failed"
    /\ lastEvent' = Event("onLoadError", pdfFile, "pdfLoadError")
    /\ effects' = [NoEffects EXCEPT !.consoleError = 1]
    /\ UNCHANGED <<fontSize, scale, pageNumber, numPages, isPdfMode, pdfFile,
                   fileName, innerHTML, editorFontPx, pdfFontPx, editorFontFamily, pdfFontFamily, docVars>>
    /\ KeepTheme

(* ------------------------------ mode buttons --------------------------- *)

\* 'Text Editor' / 'PDF Editor': onClick={() => setIsPdfMode(b)}
setIsPdfMode(b) ==
    /\ Render(b, pdfFile, FALSE)
    /\ lastEvent' = Event(IF b THEN "PDF Editor" ELSE "Text Editor", NoFile, "none")
    /\ effects' = NoEffects
    /\ UNCHANGED <<fontSize, scale, pageNumber, numPages, fileName, docVars>>
    /\ KeepTheme

(* ------------------------------ opening files ------------------------- *)

RemoveAt(s, i) == SubSeq(s, 1, i - 1) \o SubSeq(s, i + 1, Len(s))

IsWordType(type) == type = DocxType \/ type = DocType

\* handleFileChange up to its first await (or to its end when there is none).
\* setFileName runs before the type is looked at; a type that is neither PDF
\* nor Word falls through both branches of the if.
handleFileChange(f) ==
    /\ fileName' = f
    /\ IF FileType(f) = PdfType
       THEN /\ Render(TRUE, f, TRUE)
            /\ tasks' = tasks
            /\ lastEvent' = Event("handleFileChange", f, "none")
       ELSE IF IsWordType(FileType(f))
       THEN /\ Len(tasks) < MaxTasks
            /\ tasks' = Append(tasks, [file |-> f, pc |-> "arrayBuffer"])
            /\ lastEvent' = Event("handleFileChange", f, "none")
            /\ UNCHANGED <<isPdfMode, pdfFile, innerHTML, editorFontPx, pdfFontPx, editorFontFamily, pdfFontFamily, docState>>
       ELSE /\ tasks' = tasks
            /\ lastEvent' = Event("handleFileChange", f, "unsupportedType")
            /\ UNCHANGED <<isPdfMode, pdfFile, innerHTML, editorFontPx, pdfFontPx, editorFontFamily, pdfFontFamily, docState>>
    /\ effects' = NoEffects
    /\ UNCHANGED <<fontSize, scale, pageNumber, numPages, wordCount, isSaving, timers>>
    /\ UNCHANGED themeVars
    /\ isOpen' = (isOpen /\ ~(AppStateChanged \/ FileType(f) = PdfType))

\* The file dialog closed without a file: `if (!file) return`.
handleFileChangeNoFile ==
    /\ lastEvent' = Event("handleFileChange", NoFile, "none")
    /\ effects' = NoEffects
    /\ UNCHANGED <<viewVars, isPdfMode, pdfFile, fileName, innerHTML, docState, docVars>>
    /\ KeepTheme

\* `await file.arrayBuffer()` resolves for the i-th suspended invocation, which
\* goes on into convertWordToHtml and suspends at `await mammoth.convertToHtml`.
ArrayBufferResolved(i) ==
    /\ tasks[i].pc = "arrayBuffer"
    /\ tasks' = [tasks EXCEPT ![i].pc = "convertToHtml"]
    /\ lastEvent' = Event("arrayBuffer", tasks[i].file, "none")
    /\ effects' = NoEffects
    /\ UNCHANGED <<viewVars, isPdfMode, pdfFile, fileName, innerHTML, docState,
                   wordCount, isSaving, timers>>
    /\ KeepTheme

\* What the resumed invocation writes once convertWordToHtml has returned html.
LoadedHtml(html) == IF EditorMounted(isPdfMode) THEN html ELSE innerHTML
LoadedWordCount(html) ==
    IF EditorMounted(isPdfMode) THEN CountWords(TextContent(html)) ELSE wordCount

\* mammoth resolves: the class attributes are added and the invocation resumes
\* at `if (editorRef.current)`.
ConvertResolved(i) ==
    /\ tasks[i].pc = "convertToHtml"
    /\ MammothOk(tasks[i].file)
    /\ innerHTML' = LoadedHtml(ConvertedHtml(tasks[i].file))
    /\ wordCount' = LoadedWordCount(ConvertedHtml(tasks[i].file))
    /\ tasks' = RemoveAt(tasks, i)
    /\ lastEvent' = Event("convertWordToHtml", tasks[i].file, "none")
    /\ effects' = NoEffects
    /\ UNCHANGED <<viewVars, isPdfMode, pdfFile, fileName, docState, isSaving, timers>>
    /\ KeepTheme

\* mammoth rejects: convertWordToHtml logs and rethrows, the catch of
\* handleFileChange logs again and alerts.
ConvertRejected(i) ==
    /\ tasks[i].pc = "convertToHtml"
    /\ ~MammothOk(tasks[i].file)
    /\ tasks' = RemoveAt(tasks, i)
    /\ lastEvent' = Event("convertWordToHtml", tasks[i].file, "conversionError")
    /\ effects' = [NoEffects EXCEPT !.consoleError = 2, !.alert = 1]
    /\ UNCHANGED <<viewVars, isPdfMode, pdfFile, fileName, innerHTML, docState,
                   wordCount, isSaving, timers>>
    /\ KeepTheme

(* ------------------------------- editing ------------------------------- *)

\* The content after one keystroke in the contentEditable element: a character
\* appended, or the last character deleted.
RECURSIVE DeleteLastChar(_)
DeleteLastChar(html) ==
    IF html = <<>> THEN <<>>
    ELSE IF IsText(html[Len(html)]) THEN SubSeq(html, 1, Len(html) - 1)
    ELSE Append(DeleteLastChar(SubSeq(html, 1, Len(html) - 1)), html[Len(html)])

Keystrokes(html) ==
    {Append(html, c) : c \in IF Len(TextContent(html)) < MaxText THEN TextChars ELSE {}}
        \cup (IF TextContent(html) # <<>> THEN {DeleteLastChar(html)} ELSE {})

\* The word count handleContentChange sets from e.currentTarget.textContent.
InputWordCount(html) == CountWords(TextContent(html))
\* setIsSaving(true) in handleContentChange.
SavingAfterInput == TRUE

\* onInput of the editor: the browser has changed the content to html.
handleContentChange(html) ==
    /\ EditorMounted(isPdfMode)
    /\ timers < MaxTimers
    /\ innerHTML' = html
    /\ wordCount' = InputWordCount(html)
    /\ isSaving' = SavingAfterInput
    /\ timers' = timers + 1
    /\ lastEvent' = Event("handleContentChange", NoFile, "none")
    /\ effects' = NoEffects
    /\ UNCHANGED <<viewVars, isPdfMode, pdfFile, fileName, docState, tasks>>
    /\ KeepTheme

\* The oldest pending timer fires: () => setIsSaving(false).
SaveTimerFired ==
    /\ timers > 0
    /\ timers' = timers - 1
    /\ isSaving' = FALSE
    /\ lastEvent' = Event("saveTimer", NoFile, "none")
    /\ effects' = NoEffects
    /\ UNCHANGED <<viewVars, isPdfMode, pdfFile, fileName, innerHTML, docState,
                   wordCount, tasks>>
    /\ KeepTheme

(* ------------------------------- toolbar ------------------------------- *)

\* handleBold ... handleNumberList, each execCommand(<its command>).
ToolbarCommands ==
    {"bold", "italic", "underline", "justifyLeft", "justifyCenter", "justifyRight",
     "insertUnorderedList", "insertOrderedList"}

\* document.execCommand(command, false, value); no selection is modelled, so
\* the editor's content stays as it is.
execCommand(command) ==
    /\ effects' = [NoEffects EXCEPT !.execCommand = <<command>>]
    /\ UNCHANGED <<viewVars, isPdfMode, pdfFile, fileName, innerHTML, docState, docVars>>
    /\ KeepTheme

ClickCommand(command) ==
    /\ execCommand(command)
    /\ lastEvent' = Event(command, NoFile, "none")

\* The Undo and Redo buttons carry a className and an icon, and no onClick.
UndoRedoEffects(button) == NoEffects

ClickUndoRedo(button) ==
    /\ effects' = UndoRedoEffects(button)
    /\ lastEvent' = Event(button, NoFile, "none")
    /\ UNCHANGED <<viewVars, isPdfMode, pdfFile, fileName, innerHTML, docState, docVars>>
    /\ KeepTheme

\* exportToPDF: under `if (element)`, pdf.html(element.innerHTML, ...) whose
\* callback saves 'document.pdf'.
ExportEffects ==
    IF EditorMounted(isPdfMode)
    THEN [NoEffects EXCEPT !.html = <<innerHTML>>, !.save = <<"document.pdf">>]
    ELSE NoEffects

exportToPDF ==
    /\ effects' = ExportEffects
    /\ lastEvent' = Event("exportToPDF", NoFile, "none")
    /\ UNCHANGED <<viewVars, isPdfMode, pdfFile, fileName, innerHTML, docState, docVars>>
    /\ KeepTheme

(* ------------------------------ dark mode ------------------------------ *)

\* classList.toggle('light-mode', force): the class is present afterwards
\* exactly when force is true.  The force is !darkMode with darkMode read from
\* the closure of the render in which the click happens.
BodyLightModeAfterToggle == ~darkMode

\* className of the root element: 'light-mode' when darkMode is false.
RootLightMode == ~darkMode

toggleDarkMode ==
    /\ darkMode' = ~darkMode
    /\ bodyLightMode' = BodyLightModeAfterToggle
    /\ isOpen' = FALSE
    /\ lastEvent' = Event("toggleDarkMode", NoFile, "none")
    /\ effects' = NoEffects
    /\ UNCHANGED <<viewVars, isPdfMode, pdfFile, fileName, innerHTML, docState, docVars,
                   selectedFont>>

(* -------------------------------- fonts -------------------------------- *)

fontOptions ==
    ("Inter" :> "Inter, sans-serif") @@ ("Poppins" :> "Poppins, sans-serif")
        @@ ("Georgia" :> "Georgia, serif") @@ ("Arial" :> "Arial, sans-serif")
        @@ ("Times New Roman" :> "Times New Roman, serif")
        @@ ("Courier New" :> "Courier New, monospace")

\* fontCategories of FontSelector, the fonts its dropdown lists.
fontCategories ==
    [SansSerif |-> {"Inter", "Roboto", "Nunito Sans", "Poppins", "Lato", "Source Sans Pro"},
     Serif |-> {"Merriweather", "Playfair Display", "Georgia", "EB Garamond"},
     Monospace |-> {"JetBrains Mono", "Fira Code", "Consolas"}]

DropdownFonts == fontCategories.SansSerif \cup fontCategories.Serif \cup fontCategories.Monospace

\* fontOptions[font]: undefined for a name that is no key, which the style
\* property and the template string both turn into the text "undefined".
FontFamilyOf(font) == IF font \in DOMAIN fontOptions THEN fontOptions[font] ELSE "undefined"

\* handleFontChange: the inline styles of the elements inside the editor are
\* not part of the token model of innerHTML.  setAttribute('style', ...)
\* replaces the whole style attribute of the PDF container.
handleFontChange(font) ==
    /\ selectedFont' = font
    /\ editorFontFamily' =
         IF EditorMounted(isPdfMode) THEN FontFamilyOf(font) ELSE editorFontFamily
    /\ pdfFontFamily' =
         IF DocumentMounted(isPdfMode, pdfFile) THEN FontFamilyOf(font) ELSE pdfFontFamily
    /\ pdfFontPx' = IF DocumentMounted(isPdfMode, pdfFile) THEN Unset ELSE pdfFontPx
    /\ effects' = NoEffects
    /\ UNCHANGED <<fontSize, scale, pageNumber, numPages, editorFontPx, isPdfMode, pdfFile,
                   fileName, innerHTML, docState, docVars, darkMode, bodyLightMode>>

\* The 'Font' button of FontSelector: setIsOpen(!isOpen).
ToggleFontDropdown ==
    /\ isOpen' = ~isOpen
    /\ lastEvent' = Event("Font", NoFile, "none")
    /\ effects' = NoEffects
    /\ UNCHANGED <<viewVars, isPdfMode, pdfFile, fileName, innerHTML, docState, docVars,
                   themeVars>>

\* A font button of the open dropdown: onFontChange(font as FontOptionKey),
\* then setIsOpen(false).
ChooseDropdownFont(font) ==
    /\ isOpen
    /\ handleFontChange(font)
    /\ isOpen' = FALSE
    /\ lastEvent' = Event("FontSelector", NoFile, "none")

\* A button of the 'Choose Your Font' grid, rendered under !pdfFile && !fileName
\* with one button per key of fontOptions.
ChooseGridFont(name) ==
    /\ pdfFile = NoFile
    /\ fileName = NoFile
    /\ handleFontChange(name)
    /\ isOpen' = (isOpen /\ selectedFont = name)
    /\ lastEvent' = Event("Choose Your Font", NoFile, "none")

(* ---------------------------- specifications --------------------------- *)

\* The theme and the font: dark mode, the font dropdown and grid, over the
\* two modes and an opened file (which hides the grid).
NextTheme ==
    \/ toggleDarkMode
    \/ ToggleFontDropdown
    \/ \E font \in DropdownFonts : ChooseDropdownFont(font)
    \/ \E name \in DOMAIN fontOptions : ChooseGridFont(name)
    \/ \E b \in BOOLEAN : setIsPdfMode(b)
    \/ \E f \in {"one.pdf", "pic.png"} : handleFileChange(f)

SpecTheme == Init /\ [][NextTheme]_vars


\* The view state: font size, zoom, pages, the two modes and PDF files.
NextView ==
    \/ ClickFontSmaller
    \/ ClickFontLarger
    \/ zoomIn
    \/ zoomOut
    \/ nextPage
    \/ prevPage
    \/ onDocumentLoadSuccess
    \/ onLoadError
    \/ \E b \in BOOLEAN : setIsPdfMode(b)
    \/ \E f \in PdfFiles : handleFileChange(f)

SpecView == Init /\ [][NextView]_vars

\* The documents: every kind of file, its asynchronous import, the editor,
\* the two modes and the auto-save timers.
Next ==
    \/ \E f \in Files : handleFileChange(f)
    \/ handleFileChangeNoFile
    \/ \E i \in 1..Len(tasks) : ArrayBufferResolved(i)
    \/ \E i \in 1..Len(tasks) : ConvertResolved(i)
    \/ \E i \in 1..Len(tasks) : ConvertRejected(i)
    \/ onDocumentLoadSuccess
    \/ onLoadError
    \/ \E b \in BOOLEAN : setIsPdfMode(b)
    \/ \E html \in Keystrokes(innerHTML) : handleContentChange(html)
    \/ SaveTimerFired

Spec == Init /\ [][Next]_vars

\* The toolbar: formatting commands, Undo/Redo and export, over an editor
\* that is typed into, filled by an import, and unmounted by a mode switch.
NextToolbar ==
    \/ \E command \in ToolbarCommands : ClickCommand(command)
    \/ \E button \in {"undo", "redo"} : ClickUndoRedo(button)
    \/ exportToPDF
    \/ \E f \in {"a.docx", "one.pdf"} : handleFileChange(f)
    \/ \E i \in 1..Len(tasks) : ArrayBufferResolved(i)
    \/ \E i \in 1..Len(tasks) : ConvertResolved(i)
    \/ \E b \in BOOLEAN : setIsPdfMode(b)
    \/ \E html \in Keystrokes(innerHTML) : handleContentChange(html)
    \/ SaveTimerFired

SpecToolbar == Init /\ [][NextToolbar]_vars

(* ------------------------------- claims -------------------------------- *)

\* The number of words of a text, counted as the places where a word starts:
\* a character that is not whitespace and stands first or after whitespace.
WordsIn(text) ==
    Cardinality({i \in 1..Len(text) : text[i] # " " /\ (i = 1 \/ text[i - 1] = " ")})

FontSizeInRange == MinFontSize <= fontSize /\ fontSize <= MaxFontSize

\* C1: starting from 16, after any sequence of 'A-' and 'A+' clicks, in either
\* mode and interleaved with zooming, paging, opening PDFs and mode switches,
\* 8 <= fontSize <= 72; 'A-' at 8 and 'A+' at 72 leave fontSize unchanged.
C1_FontSizeClamped ==
    /\ fontSize = InitFontSize
    /\ []FontSizeInRange
    /\ [][/\ (ClickFontSmaller /\ fontSize = MinFontSize => fontSize' = MinFontSize)
          /\ (ClickFontLarger /\ fontSize = MaxFontSize => fontSize' = MaxFontSize)]_vars

\* C1 witness: 'A+' has been clicked in PDF mode with a PDF open, and the size
\* (written to the PDF container's style as well) stands at the upper limit.
C1_Witness ==
    /\ lastEvent.op = "A+"
    /\ fontSize = MaxFontSize
    /\ isPdfMode
    /\ pdfFontPx = MaxFontSize

ScaleInRange == MinScale <= scale /\ scale <= MaxScale

\* C2: starting from 1.0, after any sequence of zoomIn and zoomOut (steps of
\* 0.1, in tenths) 0.5 <= scale <= 2.0; zoomIn at 2.0 and zoomOut at 0.5 leave
\* scale unchanged.
C2_ScaleClamped ==
    /\ scale = InitScale
    /\ []ScaleInRange
    /\ [][/\ (zoomIn /\ scale = MaxScale => scale' = MaxScale)
          /\ (zoomOut /\ scale = MinScale => scale' = MinScale)]_vars

\* C2 witness: zoomOut has been called and the scale stands at 0.5.
C2_Witness == lastEvent.op = "zoomOut" /\ scale = MinScale

\* C3: in every reachable state pageNumber >= 1, and whenever numPages is
\* known pageNumber <= numPages, also after a second PDF with fewer pages is
\* opened and loaded.
C3_PageNumberClamped ==
    /\ pageNumber >= 1
    /\ (numPages # Null => pageNumber <= numPages)

\* C4: handling any of the three failures (unsupported file type, conversion
\* that throws, PDF that fails to load) emits at least one console error and
\* exactly one alert.
C4_FailuresSurfaced ==
    lastEvent.failure # "none" => effects.consoleError >= 1 /\ effects.alert = 1

\* C5: once handleFileChange has finished for a Word file whose conversion
\* succeeded, the editor's content is the converted HTML and wordCount is the
\* word count of that content, whatever the mode.
C5_WordImportLoadsEditor ==
    (lastEvent.op = "convertWordToHtml" /\ lastEvent.failure = "none") =>
        /\ innerHTML = ConvertedHtml(lastEvent.file)
        /\ wordCount = WordsIn(TextContent(ConvertedHtml(lastEvent.file)))

\* C6: every click on 'Export to PDF', in text mode or PDF mode, passes the
\* editor's current HTML to the PDF generator exactly once and saves
\* 'document.pdf'.
C6_ExportAlwaysSaves ==
    lastEvent.op = "exportToPDF" =>
        /\ Len(effects.html) = 1
        /\ effects.html[1] = innerHTML
        /\ effects.save = <<"document.pdf">>

\* C7: clicking Undo issues the native 'undo' command and clicking Redo the
\* native 'redo' command, as Bold issues 'bold'.
C7_UndoRedoNative ==
    lastEvent.op \in {"undo", "redo"} => effects.execCommand = <<lastEvent.op>>

\* C8: wordCount equals the number of whitespace-separated words of the
\* editor's current text, after any inputs, imports and mode switches (stated
\* for the states in which an editor element exists).
C8_WordCountTracksText ==
    EditorMounted(isPdfMode) => wordCount = WordsIn(TextContent(innerHTML))

\* C9: when the last pending Word import has finished, the editor holds the
\* converted HTML of the file selected last (the displayed fileName) and
\* wordCount is its word count, whatever the order the imports completed in.
C9_LastSelectionWins ==
    (/\ lastEvent.op = "convertWordToHtml"
     /\ tasks = <<>>
     /\ EditorMounted(isPdfMode)
     /\ fileName \in WordFiles
     /\ MammothOk(fileName)) =>
        /\ innerHTML = ConvertedHtml(fileName)
        /\ wordCount = WordsIn(TextContent(ConvertedHtml(fileName)))

\* C10: while the timer started by an input has not fired, isSaving is true.
C10_SavingCoversPendingTimers == timers > 0 => isSaving

\* C11: after any number of toggleDarkMode calls, document.body carries the
\* class 'light-mode' exactly when darkMode is false, that is, the body class
\* agrees with the class of the root element.
C11_BodyClassFollowsDarkMode ==
    lastEvent.op = "toggleDarkMode" =>
        /\ bodyLightMode = ~darkMode
        /\ bodyLightMode = RootLightMode

\* C12: after any sequence of choices in the FontSelector dropdown or the
\* 'Choose Your Font' grid, selectedFont is one of the six keys of fontOptions
\* and the font family written to the editor is a value of fontOptions.
C12_SelectedFontKnown ==
    /\ selectedFont \in DOMAIN fontOptions
    /\ (editorFontFamily # NoFamily =>
            \E name \in DOMAIN fontOptions : editorFontFamily = fontOptions[name])

====
